---- MODULE Spec2Model ----
(***************************************************************************)
(* Account-deletion Lambda (aws/lambda/deletion/handler.py) as a state     *)
(* machine.  The bucket is a function from keys to contents, the Batch     *)
(* Operations service is a list of jobs, and every invocation of the       *)
(* handler is a process that advances one store or provider call at a      *)
(* time.                                                                   *)
(***************************************************************************)
EXTENDS Integers, Sequences, FiniteSets, TLC

(***************************************************************************)
(* Bounds of the model.                                                    *)
(***************************************************************************)
\* object file names are the numbers 1..NameMax (zero padded in the bucket)
NameMax == 1600
\* faults the store and the provider may inject in one behaviour
MaxFaults == 1
\* last instant of the clock
MaxClock == 3
\* the page length list_objects_v2 serves when it serves short pages
SmallPage == 2
\* the page length list_objects_v2 serves otherwise (the service's MaxKeys)
FullPage == 1000
\* the file number of the photo a user's app uploads while the Lambda runs
UploadName == 4

(***************************************************************************)
(* Program constants.                                                      *)
(***************************************************************************)
\* DELETION_THRESHOLD's default, handler.py line 30
DefaultThreshold == 1000
\* keys per delete_objects request, handler.py lines 217-218
DeleteBatchLimit == 1000

(***************************************************************************)
(* Strings.  A key is a record [p, n]: p is the key's text as a sequence   *)
(* of tokens (path words, "/" and ".json" as they stand, a user id one     *)
(* token per character) and n > 0 is a numbered file name that follows p   *)
(* (n = 0: nothing follows).                                               *)
(***************************************************************************)
\* tokens that sort before a digit, in byte order
TokLow == << ",", "-manifest.csv", ".json", "/" >>
\* tokens that sort after a numbered file name, in byte order
TokHigh == << "2026-11-01", "2026-11-02", "20261101-000000", "20261101-000001",
              "20261102-000000", "20261102-000001", "20261102-000002",
              "a", "apple:x", "b", "batch-jobs", "catalogs", "google:y",
              "identities", "job1", "job2", "job3", "job4", "manifests",
              "metadata", "photos", "reports", "scheduled-deletions",
              "thumbnails", "users" >>

TokRank == [t \in {TokLow[i] : i \in DOMAIN TokLow} \cup {TokHigh[i] : i \in DOMAIN TokHigh} |->
              IF \E i \in DOMAIN TokLow : TokLow[i] = t
              THEN CHOOSE i \in DOMAIN TokLow : TokLow[i] = t
              ELSE Len(TokLow) + NameMax + (CHOOSE i \in DOMAIN TokHigh : TokHigh[i] = t)]

\* the key's text as a sequence of byte-order ranks
RankSeq(k) ==
    [i \in 1..Len(k.p) |-> TokRank[k.p[i]]] \o
    (IF k.n > 0 THEN << Len(TokLow) + k.n >> ELSE << >>)

RECURSIVE SeqLess(_, _)
SeqLess(s, t) ==
    IF t = << >> THEN FALSE
    ELSE IF s = << >> THEN TRUE
    ELSE IF Head(s) # Head(t) THEN Head(s) < Head(t)
    ELSE SeqLess(Tail(s), Tail(t))

\* the bucket's listing order (byte order of the keys)
KeyLess(k1, k2) ==
    IF k1.p = k2.p THEN k1.n < k2.n ELSE SeqLess(RankSeq(k1), RankSeq(k2))

\* str.startswith
StartsWith(s, pre) ==
    /\ Len(pre) <= Len(s)
    /\ SubSeq(s, 1, Len(pre)) = pre

\* `sub in s` of Python, on token sequences
Contains(s, sub) ==
    \E i \in 0..(Len(s) - Len(sub)) : SubSeq(s, i + 1, i + Len(sub)) = sub

Key(p, n) == [p |-> p, n |-> n]

\* the texts of P in byte order
SortTexts(P) ==
    LET Before(t) == {o \in P : KeyLess(Key(o, 0), Key(t, 0))}
    IN  [i \in 1..Cardinality(P) |-> CHOOSE t \in P : Cardinality(Before(t)) = i - 1]

RECURSIVE Flatten(_)
Flatten(ss) == IF ss = << >> THEN << >> ELSE Head(ss) \o Flatten(Tail(ss))

\* the file numbers to look through for the numbers of T
NameSeq(T) ==
    IF T = {} THEN << >>
    ELSE IF \A n \in T : n <= 8 THEN [i \in 1..8 |-> i]
    ELSE [i \in 1..NameMax |-> i]

(***************************************************************************)
(* The bucket is a function st from a key's text p to the file numbers     *)
(* under it: st[p][n] is the content of Key(p, n).                         *)
(***************************************************************************)
Has(st, k) == k.p \in DOMAIN st /\ k.n \in DOMAIN st[k.p]

Get(st, k) == st[k.p][k.n]

\* the keys of the bucket under a prefix, in listing order: text by text, and
\* a final sort where a text with numbered files is the prefix of another one
Listing(st, prefix) ==
    LET texts == SortTexts({p \in DOMAIN st : StartsWith(p, prefix)})
        OfText(p) ==
            LET T == DOMAIN st[p]
                ns == SelectSeq(NameSeq(T \ {0}), LAMBDA i : i \in T)
            IN  (IF 0 \in T THEN << Key(p, 0) >> ELSE << >>) \o
                [j \in 1..Len(ns) |-> Key(p, ns[j])]
        listed == Flatten([i \in 1..Len(texts) |-> OfText(texts[i])])
        nested == \E i, j \in DOMAIN texts :
                     i # j /\ StartsWith(texts[j], texts[i]) /\ DOMAIN st[texts[i]] # {0}
    IN  IF nested THEN SortSeq(listed, KeyLess) ELSE listed

Remove(st, ks) ==
    LET left(p) == (DOMAIN st[p]) \ {k.n : k \in {o \in ks : o.p = p}}
        kept == {p \in DOMAIN st : left(p) # {}}
    IN  [p \in kept |-> [n \in left(p) |-> st[p][n]]]

Put(st, key, content) ==
    LET had(p) == IF p \in DOMAIN st THEN DOMAIN st[p] ELSE {}
    IN  [p \in (DOMAIN st) \cup {key.p} |->
           [n \in had(p) \cup (IF p = key.p THEN {key.n} ELSE {}) |->
              IF p = key.p /\ n = key.n THEN content ELSE st[p][n]]]

(***************************************************************************)
(* The bucket's layout.                                                    *)
(***************************************************************************)
\* user ids: "a" is a prefix of "ab" and "b" a suffix of it
Users == { << "a" >>, << "a", "b" >>, << "b" >> }

BUCKET_NAME == "photolala-dev"

NoKey == Key(<< >>, 0)

\* the four namespaces of a user, in the order they are scanned
Prefixes(user_id) ==
    << << "photos", "/" >> \o user_id \o << "/" >>,
       << "thumbnails", "/" >> \o user_id \o << "/" >>,
       << "catalogs", "/" >> \o user_id \o << "/" >>,
       << "users", "/" >> \o user_id \o << "/" >> >>

IdentitiesPrefix == << "identities", "/" >>
ScheduledPrefix == << "scheduled-deletions", "/" >>

\* date_key = now.strftime('%Y-%m-%d')
DateKey(t) == IF t < 2 THEN "2026-11-01" ELSE "2026-11-02"

\* timestamp = utcnow().strftime('%Y%m%d-%H%M%S'): one token per second
TimeStamp(t) ==
    IF t = 0 THEN "20261101-000000"
    ELSE IF t = 1 THEN "20261101-000001"
    ELSE IF t = 2 THEN "20261102-000000"
    ELSE IF t = 3 THEN "20261102-000001"
    ELSE "20261102-000002"

ScheduledKey(date, user_id) ==
    Key(ScheduledPrefix \o << date, "/" >> \o user_id \o << ".json" >>, 0)

ManifestKey(ts, user_id) ==
    Key(<< "batch-jobs", "/", "manifests", "/", ts, "/" >> \o user_id \o << "-manifest.csv" >>, 0)

ReportPrefix(ts, user_id) ==
    << "batch-jobs", "/", "reports", "/", ts, "/" >> \o user_id

MetadataKey(job_id) ==
    Key(<< "batch-jobs", "/", "metadata", "/", job_id, ".json" >>, 0)

\* the job ids the provider hands out, in order
JobIds == << "job1", "job2", "job3", "job4" >>

\* the text of a key, for `user_id in obj['Key']`
KeyText(k) == k.p \o (IF k.n > 0 THEN << ToString(k.n) >> ELSE << >>)

\* str.strip() of a mapping's content
RECURSIVE LStrip(_)
LStrip(s) == IF s # << >> /\ Head(s) \in {" ", "\n"} THEN LStrip(Tail(s)) ELSE s
RECURSIVE RStrip(_)
RStrip(s) ==
    IF s # << >> /\ s[Len(s)] \in {" ", "\n"} THEN RStrip(SubSeq(s, 1, Len(s) - 1)) ELSE s
Strip(s) == RStrip(LStrip(s))

\* obj['Key'].split('/')[-1]
RECURSIVE LastSegment(_)
LastSegment(s) ==
    IF \E i \in DOMAIN s : s[i] = "/"
    THEN LastSegment(Tail(s))
    ELSE s

\* filename.replace('.json', '')
DropJson(s) == SelectSeq(s, LAMBDA t : t # ".json")

(***************************************************************************)
(* State.                                                                  *)
(***************************************************************************)
VARIABLES
    store,    \* the bucket: key -> content
    jobs,     \* the Batch Operations jobs of the account, in creation order
    clock,    \* the current instant
    config,   \* ENVIRONMENT, DELETION_THRESHOLD, the page length of the store,
              \* whether invocations overlap, the event types that trigger them
    faults,   \* faults the store and the provider may still inject
    proc      \* the invocations of the Lambda

vars == << store, jobs, clock, config, faults, proc >>

Min(a, b) == IF a < b THEN a ELSE b

NoEvent == [type |-> "", userId |-> << >>, jobId |-> ""]
NoResp == [statusCode |-> 0, body |-> [pending |-> TRUE]]

\* an invocation that has not been triggered
IdleProc ==
    [pc |-> "idle", event |-> NoEvent, resp |-> NoResp,
     \* process_scheduled_deletions
     now |-> 0, entries |-> << >>, ei |-> 0, results |-> << >>, swUser |-> << >>,
     \* delete_user_account, count_and_list_objects
     caller |-> "", user |-> << >>, pfx |-> 0, cursor |-> NoKey, keys |-> << >>,
     total |-> 0, inv |-> << >>, branch |-> "",
     \* remove_identity_mappings, remove_scheduled_deletion
     page |-> << >>, pi |-> 0, more |-> FALSE, removed |-> 0,
     \* perform_direct_deletion
     bi |-> 0, off |-> 0, deleted |-> 0,
     \* create_batch_operations_job
     manifestKey |-> NoKey, manifest |-> << >>, etag |-> [md5 |-> << >>],
     jobId |-> "", reportPrefix |-> << >>,
     \* the store and provider calls made so far, in order
     trace |-> << >>]

NoResult == [pending |-> TRUE]

\* one call of the invocation, as the log keeps it; the call and the end of
\* delete_user_account are logged too, the end with what it returned
Call(op, user, key, keys, ok) ==
    [op |-> op, user |-> user, key |-> key, keys |-> keys, ok |-> ok, more |-> FALSE,
     result |-> NoResult]

Log(pr, op, key, keys, ok) ==
    [pr EXCEPT !.trace = Append(@, Call(op, pr.user, key, keys, ok))]

\* a page of list_objects_v2 that was served, with its IsTruncated
LogList(pr, prefix, pg) ==
    [pr EXCEPT !.trace =
        Append(@, [Call("list", pr.user, Key(prefix, 0), pg.keys, TRUE) EXCEPT
                      !.more = pg.truncated])]

\* the page process_scheduled_deletions was served, with what the date bucket
\* held at that instant
LogBucket(pr, prefix, pg) ==
    LET all == Listing(store, prefix)
    IN  [pr EXCEPT !.trace =
            Append(@, [Call("list", pr.user, Key(prefix, 0), pg.keys, TRUE) EXCEPT
                          !.more = pg.truncated,
                          !.result = [entries |-> all,
                                      bodies |-> [i \in DOMAIN all |-> Get(store, all[i])]]])]

LogReturn(pr, result) ==
    [pr EXCEPT !.trace =
        Append(@, [Call("return", pr.user, NoKey, << >>, TRUE) EXCEPT !.result = result])]

\* what a call may do: succeed, or fail while a fault is left
Outcomes == {"ok"} \cup (IF faults > 0 THEN {"fail"} ELSE {})

Spend(o) == faults' = IF o = "ok" THEN faults ELSE faults - 1

\* one page of list_objects_v2: the keys under the prefix after the cursor
ListPage(prefix, cursor) ==
    LET listed == Listing(store, prefix)
        all == IF cursor = NoKey THEN listed
               ELSE SelectSeq(listed, LAMBDA k : KeyLess(cursor, k))
        n == Min(config.pageSize, Len(all))
    IN  [keys |-> SubSeq(all, 1, n), truncated |-> Len(all) > n]

\* the ETag of an object: a fingerprint of its content
ETag(content) == [md5 |-> content]

(***************************************************************************)
(* handler: the response ends the invocation.                              *)
(***************************************************************************)
Finish(pr, code, body) ==
    [pr EXCEPT !.pc = "done", !.resp = [statusCode |-> code, body |-> body]]

\* process_scheduled_deletions, the loop's next entry or its return
SweepNext(pr) ==
    LET q == [pr EXCEPT !.ei = @ + 1, !.user = << >>, !.caller = ""]
    IN  IF q.ei > Len(q.entries)
        THEN Finish(q, 200, [processed |-> Len(q.results), results |-> q.results])
        ELSE [q EXCEPT !.pc = "sw_get"]

\* the failure of an entry ends the sweep, as a failure of the listing does
SweepErrorAborts(pr, msg) == Finish(pr, 200, [processed |-> 0, error |-> msg])

\* the except clause of the loop, lines 437-443
SweepError(pr, msg) ==
    SweepNext([pr EXCEPT !.results =
        Append(@, [userId |-> pr.swUser, status |-> "error", error |-> msg])])

\* delete_user_account returns to its caller
DuaReturn(pr, result) ==
    LET q == LogReturn(pr, result)
    IN  IF pr.caller = "handler"
        THEN Finish([q EXCEPT !.user = << >>], 200, result)
        ELSE SweepNext([q EXCEPT !.results = Append(@, result)])

\* an exception leaves delete_user_account
DuaRaise(pr, msg) ==
    LET q == Log(pr, "raise", NoKey, << >>, FALSE)
    IN  IF pr.caller = "handler"
        THEN Finish([q EXCEPT !.user = << >>], 500, [error |-> msg])
        ELSE SweepError(q, msg)

\* delete_user_account is called
DuaEnter(pr, user_id, caller) ==
    Log([pr EXCEPT !.pc = "scan", !.caller = caller, !.user = user_id,
                   !.pfx = 1, !.cursor = NoKey, !.keys = << >>, !.total = 0,
                   !.inv = << >>, !.branch = "", !.page = << >>, !.pi = 0,
                   !.more = FALSE, !.removed = 0, !.bi = 0, !.off = 0,
                   !.deleted = 0, !.manifestKey = NoKey, !.manifest = << >>,
                   !.etag = [md5 |-> << >>], !.jobId = "", !.reportPrefix = << >>],
        "call", NoKey, << >>, TRUE)

(***************************************************************************)
(* delete_user_account and what it calls.                                  *)
(***************************************************************************)
\* a strict comparison: an account of exactly DELETION_THRESHOLD objects goes
\* to the bulk job
UseDirectStrict(object_count, threshold) == object_count < threshold

\* DELETION_THRESHOLD decides the method, line 147
UseDirect(object_count, threshold) == object_count <= threshold

\* the batches of perform_direct_deletion start here
DirectStart(pr) == [pr EXCEPT !.pc = "dd_batch", !.bi = 1, !.off = 0, !.deleted = 0]

\* lines 147-164: the method, once the cleanup is over
Strategy(pr) ==
    IF UseDirect(pr.total, config.threshold)
    THEN DirectStart(pr)
    ELSE [pr EXCEPT !.pc = "bj_put"]

EmptyResult(pr) ==
    [status |-> "completed", userId |-> pr.user, objectCount |-> 0,
     method |-> "none", message |-> "No objects to delete"]

DirectResult(pr) ==
    [status |-> "completed", userId |-> pr.user, objectCount |-> pr.total,
     deletedCount |-> pr.deleted, method |-> "direct",
     message |-> "Account deleted successfully"]

BatchResult(pr) ==
    [status |-> "batch_job_created", userId |-> pr.user, jobId |-> pr.jobId,
     objectCount |-> pr.total, method |-> "batch", message |-> "Batch job created"]

\* the cleanup is over: lines 129-135 (no objects) or line 147
AfterCleanup(pr) ==
    IF pr.branch = "empty" THEN DuaReturn(pr, EmptyResult(pr)) ELSE Strategy(pr)

\* an exception leaves the cleanup: it propagates (lines 127-128) or is
\* logged and dropped (lines 139-145)
CleanupRaise(pr, msg) ==
    IF pr.branch = "empty" THEN DuaRaise(pr, msg) ELSE Strategy(pr)

\* an account without objects returns at once, the cleanup skipped
ScanPrefixDoneNoCleanup(pr) ==
    LET q == [pr EXCEPT !.inv = IF pr.keys # << >>
                                THEN Append(@, [prefix |-> Prefixes(pr.user)[pr.pfx],
                                                keys |-> pr.keys])
                                ELSE @,
                        !.keys = << >>, !.cursor = NoKey, !.pfx = @ + 1]
    IN  IF q.pfx <= Len(Prefixes(pr.user)) THEN q
        ELSE IF q.total = 0 THEN DuaReturn(q, EmptyResult(q))
        ELSE [q EXCEPT !.pc = "rim_list", !.branch = "nonempty"]

\* an account with objects is deleted first, its records cleaned never
ScanPrefixDoneThenDelete(pr) ==
    LET q == [pr EXCEPT !.inv = IF pr.keys # << >>
                                THEN Append(@, [prefix |-> Prefixes(pr.user)[pr.pfx],
                                                keys |-> pr.keys])
                                ELSE @,
                        !.keys = << >>, !.cursor = NoKey, !.pfx = @ + 1]
    IN  IF q.pfx <= Len(Prefixes(pr.user)) THEN q
        ELSE IF q.total = 0 THEN [q EXCEPT !.pc = "rim_list", !.branch = "empty"]
        ELSE Strategy([q EXCEPT !.branch = "nonempty"])

\* count_and_list_objects has listed a prefix to its end, lines 201-205
ScanPrefixDone(pr) ==
    LET found == IF pr.keys # << >>
                 THEN Append(pr.inv, [prefix |-> Prefixes(pr.user)[pr.pfx], keys |-> pr.keys])
                 ELSE pr.inv
        q == [pr EXCEPT !.inv = found, !.keys = << >>, !.cursor = NoKey, !.pfx = @ + 1]
    IN  IF q.pfx <= Len(Prefixes(pr.user))
        THEN q
        ELSE [q EXCEPT !.pc = "rim_list",
                       !.branch = IF q.total = 0 THEN "empty" ELSE "nonempty"]

\* count_and_list_objects, one page of one prefix, lines 191-199
ScanPage(p) ==
    /\ proc[p].pc = "scan"
    /\ \E o \in Outcomes :
         LET pr == proc[p]
             prefix == Prefixes(pr.user)[pr.pfx]
             pg == ListPage(prefix, pr.cursor)
             got == [LogList(pr, prefix, pg) EXCEPT
                        !.keys = @ \o pg.keys, !.total = @ + Len(pg.keys)]
         IN  /\ Spend(o)
             /\ proc' = [proc EXCEPT ![p] =
                  IF o = "fail"
                  THEN DuaRaise(Log(pr, "list", Key(prefix, 0), << >>, FALSE), "list_objects_v2 failed")
                  ELSE IF pg.truncated
                  THEN [got EXCEPT !.cursor = pg.keys[Len(pg.keys)]]
                  ELSE ScanPrefixDone(got)]
    /\ UNCHANGED << store, jobs, clock, config >>

\* remove_identity_mappings: the next mapping to read, the next page, or the end
RECURSIVE RimAdvance(_)
RimAdvance(pr) ==
    IF pr.pi > Len(pr.page)
    THEN IF pr.more
         THEN [pr EXCEPT !.pc = "rim_list"]
         ELSE [pr EXCEPT !.pc = "rsd_list", !.cursor = NoKey, !.page = << >>, !.pi = 0]
    ELSE IF pr.page[pr.pi] = Key(IdentitiesPrefix, 0)
    THEN RimAdvance([pr EXCEPT !.pi = @ + 1])
    ELSE [pr EXCEPT !.pc = "rim_get"]

\* remove_identity_mappings, one page of identities/, lines 471-478
RimList(p) ==
    /\ proc[p].pc = "rim_list"
    /\ \E o \in Outcomes :
         LET pr == proc[p]
             pg == ListPage(IdentitiesPrefix, pr.cursor)
         IN  /\ Spend(o)
             /\ proc' = [proc EXCEPT ![p] =
                  IF o = "fail"
                  THEN CleanupRaise(Log(pr, "list", Key(IdentitiesPrefix, 0), << >>, FALSE),
                                    "list_objects_v2 failed")
                  ELSE RimAdvance([LogList(pr, IdentitiesPrefix, pg) EXCEPT
                         !.page = pg.keys, !.pi = 1, !.more = pg.truncated,
                         !.cursor = IF pg.keys = << >> THEN @ ELSE pg.keys[Len(pg.keys)]])]
    /\ UNCHANGED << store, jobs, clock, config >>

\* the content is compared as it was read, its trailing newline kept
MappingIsOfUnstripped(content, user_id) == content = user_id

\* a mapping is taken for the user's when its content starts with the id
MappingStartsWith(content, user_id) == StartsWith(Strip(content), user_id)

\* content == user_id, line 488
MappingIsOf(content, user_id) == Strip(content) = user_id

\* a get_object that fails ends remove_identity_mappings with its exception
RimGetAborts(p) ==
    /\ proc[p].pc = "rim_get"
    /\ \E o \in Outcomes :
         LET pr == proc[p]
             key == pr.page[pr.pi]
             ok == o = "ok" /\ Has(store, key)
             q == Log(pr, "get", key, << >>, ok)
         IN  /\ Spend(o)
             /\ proc' = [proc EXCEPT ![p] =
                  IF ~ok THEN CleanupRaise(q, "get_object failed")
                  ELSE IF MappingIsOf(Get(store, key), pr.user)
                  THEN [q EXCEPT !.pc = "rim_del"]
                  ELSE RimAdvance([q EXCEPT !.pi = @ + 1])]
    /\ UNCHANGED << store, jobs, clock, config >>

\* remove_identity_mappings, get_object of one mapping, lines 480-488
RimGet(p) ==
    /\ proc[p].pc = "rim_get"
    /\ \E o \in Outcomes :
         LET pr == proc[p]
             key == pr.page[pr.pi]
             ok == o = "ok" /\ Has(store, key)
             q == Log(pr, "get", key, << >>, ok)
         IN  /\ Spend(o)
             /\ proc' = [proc EXCEPT ![p] =
                  IF ok /\ MappingIsOf(Get(store, key), pr.user)
                  THEN [q EXCEPT !.pc = "rim_del"]
                  ELSE RimAdvance([q EXCEPT !.pi = @ + 1])]
    /\ UNCHANGED << store, jobs, clock, config >>

\* remove_identity_mappings, delete_object of a mapping, lines 489-498
RimDelete(p) ==
    /\ proc[p].pc = "rim_del"
    /\ \E o \in Outcomes :
         LET pr == proc[p]
             key == pr.page[pr.pi]
             q == Log(pr, "delete", key, << >>, o = "ok")
         IN  /\ Spend(o)
             /\ store' = IF o = "ok" THEN Remove(store, {key}) ELSE store
             /\ proc' = [proc EXCEPT ![p] =
                  RimAdvance([q EXCEPT !.pi = @ + 1,
                                       !.removed = IF o = "ok" THEN @ + 1 ELSE @])]
    /\ UNCHANGED << jobs, clock, config >>

\* user_id in obj['Key'], line 518
EntryMatches(key, user_id) == Contains(KeyText(key), user_id)

\* remove_scheduled_deletion: the next entry to delete, the next page, or the end
RECURSIVE RsdAdvance(_)
RsdAdvance(pr) ==
    IF pr.pi > Len(pr.page)
    THEN IF pr.more
         THEN [pr EXCEPT !.pc = "rsd_list"]
         ELSE AfterCleanup([pr EXCEPT !.page = << >>, !.pi = 0, !.cursor = NoKey])
    ELSE IF EntryMatches(pr.page[pr.pi], pr.user)
    THEN [pr EXCEPT !.pc = "rsd_del"]
    ELSE RsdAdvance([pr EXCEPT !.pi = @ + 1])

\* remove_scheduled_deletion, one page of scheduled-deletions/, lines 513-518
RsdList(p) ==
    /\ proc[p].pc = "rsd_list"
    /\ \E o \in Outcomes :
         LET pr == proc[p]
             pg == ListPage(ScheduledPrefix, pr.cursor)
         IN  /\ Spend(o)
             /\ proc' = [proc EXCEPT ![p] =
                  IF o = "fail"
                  THEN CleanupRaise(Log(pr, "list", Key(ScheduledPrefix, 0), << >>, FALSE),
                                    "list_objects_v2 failed")
                  ELSE RsdAdvance([LogList(pr, ScheduledPrefix, pg) EXCEPT
                         !.page = pg.keys, !.pi = 1, !.more = pg.truncated,
                         !.cursor = IF pg.keys = << >> THEN @ ELSE pg.keys[Len(pg.keys)]])]
    /\ UNCHANGED << store, jobs, clock, config >>

\* after a successful delete_object remove_scheduled_deletion returns, line 525
RsdAfterDelete(pr) == AfterCleanup([pr EXCEPT !.page = << >>, !.pi = 0, !.cursor = NoKey])

\* remove_scheduled_deletion, delete_object of the entry, lines 519-527
RsdDelete(p) ==
    /\ proc[p].pc = "rsd_del"
    /\ \E o \in Outcomes :
         LET pr == proc[p]
             key == pr.page[pr.pi]
             q == Log(pr, "delete", key, << >>, o = "ok")
         IN  /\ Spend(o)
             /\ store' = IF o = "ok" THEN Remove(store, {key}) ELSE store
             /\ proc' = [proc EXCEPT ![p] =
                  IF o = "ok"
                  THEN RsdAfterDelete(q)
                  ELSE RsdAdvance([q EXCEPT !.pi = @ + 1])]
    /\ UNCHANGED << jobs, clock, config >>

\* a slice that takes one key too many
BatchInclusive(keys, i) == SubSeq(keys, i + 1, Min(i + DeleteBatchLimit + 1, Len(keys)))

\* keys[i:i + 1000], line 218
Batch(keys, i) == SubSeq(keys, i + 1, Min(i + DeleteBatchLimit, Len(keys)))

\* range(0, len(keys), 1000), line 217: the offset of the next batch
NextOffset(i) == i + DeleteBatchLimit

\* perform_direct_deletion: the next batch, the next prefix, or the return
DirectAdvance(pr) ==
    LET ks == pr.inv[pr.bi].keys
        q == IF NextOffset(pr.off) < Len(ks)
             THEN [pr EXCEPT !.off = NextOffset(pr.off)]
             ELSE [pr EXCEPT !.bi = @ + 1, !.off = 0]
    IN  IF q.bi > Len(q.inv) THEN DuaReturn(q, DirectResult(q)) ELSE q

\* what delete_objects may do: delete every key, raise, or answer with Errors
DeleteOutcomes == {"ok"} \cup (IF faults > 0 THEN {"fail", "errors"} ELSE {})

\* the keys a delete_objects answer lists under Errors: here the first of the batch
ErrorKeys(batch, o) == IF o = "errors" THEN << batch[1] >> ELSE << >>

\* the keys requested are counted, not the keys deleted
DeletedCountRequested(batch, o) == Len(batch)

\* len(response.get('Deleted', [])), line 227
DeletedCount(batch, o) ==
    IF o = "fail" THEN 0 ELSE Len(batch) - Len(ErrorKeys(batch, o))

\* perform_direct_deletion, one delete_objects request, lines 217-237
DirectBatch(p) ==
    /\ proc[p].pc = "dd_batch"
    /\ \E o \in DeleteOutcomes :
         LET pr == proc[p]
             batch == Batch(pr.inv[pr.bi].keys, pr.off)
             errs == ErrorKeys(batch, o)
             gone == IF o = "fail" THEN {}
                     ELSE {batch[i] : i \in DOMAIN batch} \ {errs[i] : i \in DOMAIN errs}
             q == Log(pr, "delete_objects", Key(pr.inv[pr.bi].prefix, 0), batch, o # "fail")
             r == IF errs = << >> THEN q ELSE Log(q, "errors", NoKey, errs, FALSE)
         IN  /\ Spend(o)
             /\ store' = Remove(store, gone)
             /\ proc' = [proc EXCEPT ![p] =
                  DirectAdvance([r EXCEPT !.deleted = @ + DeletedCount(batch, o)])]
    /\ UNCHANGED << jobs, clock, config >>

\* f'{BUCKET_NAME},{key}', line 333: the text of one manifest line
ManifestLine(bucket, key) == Key(<< bucket, "," >> \o key.p, key.n)

\* a manifest that starts with a header row
ManifestWithHeader(objects_by_prefix) ==
    << Key(<< "Bucket", ",", "Key" >>, 0) >> \o
    Flatten([i \in 1..Len(objects_by_prefix) |->
               [j \in 1..Len(objects_by_prefix[i].keys) |->
                  ManifestLine(BUCKET_NAME, objects_by_prefix[i].keys[j])]])

\* create_deletion_manifest: the lines that '\n'.join puts together, one per
\* key, in the inventory's order
create_deletion_manifest(objects_by_prefix) ==
    Flatten([i \in 1..Len(objects_by_prefix) |->
               [j \in 1..Len(objects_by_prefix[i].keys) |->
                  ManifestLine(BUCKET_NAME, objects_by_prefix[i].keys[j])]])

\* the Key field of a manifest line, as the service reads it: what follows
\* the first comma
LineKey(line) ==
    LET comma == CHOOSE i \in DOMAIN line.p :
                    line.p[i] = "," /\ \A j \in 1..(i - 1) : line.p[j] # ","
    IN  Key(SubSeq(line.p, comma + 1, Len(line.p)), line.n)

\* sum(len(keys) for keys in objects_by_prefix.values()), line 308
RECURSIVE InventorySize(_)
InventorySize(objects_by_prefix) ==
    IF objects_by_prefix = << >> THEN 0
    ELSE Len(Head(objects_by_prefix).keys) + InventorySize(Tail(objects_by_prefix))

\* create_batch_operations_job, the manifest's put_object, lines 247-259
BjPut(p) ==
    /\ proc[p].pc = "bj_put"
    /\ \E o \in Outcomes :
         LET pr == proc[p]
             ts == TimeStamp(clock)
             mk == ManifestKey(ts, pr.user)
             content == create_deletion_manifest(pr.inv)
             q == [Log(pr, "put", mk, << >>, o = "ok") EXCEPT
                     !.manifestKey = mk, !.manifest = content,
                     !.reportPrefix = ReportPrefix(ts, pr.user)]
         IN  /\ Spend(o)
             /\ store' = IF o = "ok" THEN Put(store, mk, content) ELSE store
             /\ proc' = [proc EXCEPT ![p] =
                  IF o = "ok" THEN [q EXCEPT !.pc = "bj_head"]
                  ELSE DuaRaise(q, "put_object failed")]
    /\ UNCHANGED << jobs, clock, config >>

\* create_batch_operations_job, head_object of the manifest, line 262
BjHead(p) ==
    /\ proc[p].pc = "bj_head"
    /\ \E o \in Outcomes :
         LET pr == proc[p]
             ok == o = "ok" /\ Has(store, pr.manifestKey)
             q == Log(pr, "head", pr.manifestKey, << >>, ok)
         IN  /\ Spend(o)
             /\ proc' = [proc EXCEPT ![p] =
                  IF ok
                  THEN [q EXCEPT !.pc = "bj_create", !.etag = ETag(Get(store, pr.manifestKey))]
                  ELSE DuaRaise(q, "head_object failed")]
    /\ UNCHANGED << store, jobs, clock, config >>

\* a refused create_job is passed over and the metadata record written
BjCreateUnchecked(p) ==
    /\ proc[p].pc = "bj_create"
    /\ Len(jobs) < Len(JobIds)
    /\ \E o \in Outcomes :
         LET pr == proc[p]
             id == JobIds[Len(jobs) + 1]
             q == Log(pr, "create_job", pr.manifestKey, << >>, o = "ok")
         IN  /\ Spend(o)
             /\ jobs' = IF o = "ok"
                        THEN Append(jobs, [id |-> id, manifestKey |-> pr.manifestKey,
                                           etag |-> pr.etag, user |-> pr.user,
                                           reportPrefix |-> pr.reportPrefix,
                                           createdAt |-> clock, status |-> "New",
                                           tasks |-> 0])
                        ELSE jobs
             /\ proc' = [proc EXCEPT ![p] = [q EXCEPT !.pc = "bj_meta", !.jobId = id]]
    /\ UNCHANGED << store, clock, config >>

\* create_batch_operations_job, s3control.create_job, lines 268-301
BjCreate(p) ==
    /\ proc[p].pc = "bj_create"
    /\ Len(jobs) < Len(JobIds)
    /\ \E o \in Outcomes :
         LET pr == proc[p]
             id == JobIds[Len(jobs) + 1]
             q == Log(pr, "create_job", pr.manifestKey, << >>, o = "ok")
         IN  /\ Spend(o)
             /\ jobs' = IF o = "ok"
                        THEN Append(jobs, [id |-> id, manifestKey |-> pr.manifestKey,
                                           etag |-> pr.etag, user |-> pr.user,
                                           reportPrefix |-> pr.reportPrefix,
                                           createdAt |-> clock, status |-> "New",
                                           tasks |-> 0])
                        ELSE jobs
             /\ proc' = [proc EXCEPT ![p] =
                  IF o = "ok" THEN [q EXCEPT !.pc = "bj_meta", !.jobId = id]
                  ELSE DuaRaise(q, "create_job failed")]
    /\ UNCHANGED << store, clock, config >>

\* create_batch_operations_job, the metadata record, lines 304-321
BjMeta(p) ==
    /\ proc[p].pc = "bj_meta"
    /\ \E o \in Outcomes :
         LET pr == proc[p]
             key == MetadataKey(pr.jobId)
             metadata == [jobId |-> pr.jobId, userId |-> pr.user,
                          objectCount |-> InventorySize(pr.inv), createdAt |-> clock,
                          manifestKey |-> pr.manifestKey, reportPrefix |-> pr.reportPrefix]
             q == Log(pr, "put", key, << >>, o = "ok")
         IN  /\ Spend(o)
             /\ store' = IF o = "ok" THEN Put(store, key, metadata) ELSE store
             /\ proc' = [proc EXCEPT ![p] =
                  IF o = "ok" THEN DuaReturn(q, BatchResult(q))
                  ELSE DuaRaise(q, "put_object failed")]
    /\ UNCHANGED << jobs, clock, config >>

(***************************************************************************)
(* get_batch_job_status.                                                   *)
(***************************************************************************)
JobResult(job_id, job) ==
    [jobId |-> job_id, status |-> job.status, createdAt |-> job.createdAt,
     priority |-> 10,
     progressSummary |-> IF job.status = "New" THEN [absent |-> TRUE]
                         ELSE [totalTasks |-> job.tasks, succeeded |-> job.tasks, failed |-> 0]]

\* a failure of describe_job other than NoSuchJob leaves get_batch_job_status
GetBatchJobStatusRaises(p) ==
    /\ proc[p].pc = "st_describe"
    /\ \E o \in Outcomes :
         LET pr == proc[p]
             job_id == pr.event.jobId
             found == {i \in DOMAIN jobs : jobs[i].id = job_id}
             q == Log(pr, "describe_job", NoKey, << >>, o = "ok" /\ found # {})
         IN  /\ Spend(o)
             /\ proc' = [proc EXCEPT ![p] =
                  IF o = "fail"
                  THEN Finish(q, 500, [error |-> "describe_job failed"])
                  ELSE IF found = {}
                  THEN Finish(q, 200, [jobId |-> job_id, status |-> "NotFound",
                                       error |-> "Job not found"])
                  ELSE Finish(q, 200, JobResult(job_id, jobs[CHOOSE i \in found : TRUE]))]
    /\ UNCHANGED << store, jobs, clock, config >>

\* describe_job and the two except clauses, lines 342-384
GetBatchJobStatus(p) ==
    /\ proc[p].pc = "st_describe"
    /\ \E o \in Outcomes :
         LET pr == proc[p]
             job_id == pr.event.jobId
             found == {i \in DOMAIN jobs : jobs[i].id = job_id}
             q == Log(pr, "describe_job", NoKey, << >>, o = "ok" /\ found # {})
         IN  /\ Spend(o)
             /\ proc' = [proc EXCEPT ![p] =
                  IF o = "fail"
                  THEN Finish(q, 200, [jobId |-> job_id, status |-> "Error",
                                       error |-> "describe_job failed"])
                  ELSE IF found = {}
                  THEN Finish(q, 200, [jobId |-> job_id, status |-> "NotFound",
                                       error |-> "Job not found"])
                  ELSE Finish(q, 200, JobResult(job_id, jobs[CHOOSE i \in found : TRUE]))]
    /\ UNCHANGED << store, jobs, clock, config >>

(***************************************************************************)
(* process_scheduled_deletions.                                            *)
(***************************************************************************)
\* the user id of an entry: the file name without '.json', lines 414-415
EntryUser(key) == DropJson(LastSegment(KeyText(key)))

\* delete_on <= now, line 427
IsDue(delete_on, now) == delete_on <= now

\* the listing of today's bucket, lines 392-410 and 450-455
SweepList(p) ==
    /\ proc[p].pc = "sw_list"
    /\ \E o \in Outcomes :
         LET pr == proc[p]
             prefix == ScheduledPrefix \o << DateKey(clock), "/" >>
             pg == ListPage(prefix, NoKey)
             q == [(IF o = "ok" THEN LogBucket(pr, prefix, pg)
                    ELSE Log(pr, "list", Key(prefix, 0), << >>, FALSE))
                     EXCEPT !.now = clock]
         IN  /\ Spend(o)
             /\ proc' = [proc EXCEPT ![p] =
                  IF o = "fail"
                  THEN Finish(q, 200, [processed |-> 0, error |-> "list_objects_v2 failed"])
                  ELSE IF pg.keys = << >>
                  THEN Finish(q, 200, [processed |-> 0,
                                       message |-> "No scheduled deletions for today"])
                  ELSE SweepNext([q EXCEPT !.entries = pg.keys, !.ei = 0, !.results = << >>])]
    /\ UNCHANGED << store, jobs, clock, config >>

\* one entry of the listing: get_object, the parse and the date, lines 412-443
SweepEntry(p) ==
    /\ proc[p].pc = "sw_get"
    /\ \E o \in Outcomes :
         LET pr == proc[p]
             key == pr.entries[pr.ei]
             ok == o = "ok" /\ Has(store, key)
             q == [Log(pr, "get", key, << >>, ok) EXCEPT !.swUser = EntryUser(key)]
         IN  /\ Spend(o)
             /\ proc' = [proc EXCEPT ![p] =
                  IF ~ok THEN SweepError(q, "get_object failed")
                  ELSE IF ~Get(store, key).json THEN SweepError(q, "JSONDecodeError")
                  ELSE IF ~Get(store, key).hasDeleteOn THEN SweepError(q, "KeyError: deleteOn")
                  ELSE IF IsDue(Get(store, key).deleteOn, pr.now)
                  THEN DuaEnter(q, q.swUser, "sweep")
                  ELSE SweepNext(q)]
    /\ UNCHANGED << store, jobs, clock, config >>

(***************************************************************************)
(* handler.                                                                *)
(***************************************************************************)
Events ==
    {[type |-> "immediate", userId |-> u, jobId |-> ""] : u \in Users \cup {<< >>}}
    \cup {[type |-> t, userId |-> << >>, jobId |-> ""] : t \in {"scheduled", "<absent>", "purge"}}
    \cup {[type |-> "status", userId |-> << >>, jobId |-> j] : j \in {"", "job1", "job4"}}

\* event.get('type', 'scheduled'), line 58
ActionOf(ev) == IF ev.type = "<absent>" THEN "scheduled" ELSE ev.type

\* the jobId of a status trigger is not looked at
DispatchUnchecked(pr, ev) ==
    LET action == ActionOf(ev)
        q == [pr EXCEPT !.event = ev]
    IN  CASE action = "immediate" ->
               IF config.environment # "development"
               THEN Finish(q, 403, [error |-> "Immediate deletion only allowed in development"])
               ELSE IF ev.userId = << >>
               THEN Finish(q, 400, [error |-> "userId required"])
               ELSE DuaEnter(q, ev.userId, "handler")
          [] action = "scheduled" -> [q EXCEPT !.pc = "sw_list"]
          [] action = "status" -> [q EXCEPT !.pc = "st_describe"]
          [] OTHER -> Finish(q, 400, [error |-> "Unknown action"])

\* lines 57-98: the trigger is validated and dispatched
Dispatch(pr, ev) ==
    LET action == ActionOf(ev)
        q == [pr EXCEPT !.event = ev]
    IN  CASE action = "immediate" ->
               IF config.environment # "development"
               THEN Finish(q, 403, [error |-> "Immediate deletion only allowed in development"])
               ELSE IF ev.userId = << >>
               THEN Finish(q, 400, [error |-> "userId required"])
               ELSE DuaEnter(q, ev.userId, "handler")
          [] action = "scheduled" -> [q EXCEPT !.pc = "sw_list"]
          [] action = "status" ->
               IF ev.jobId = ""
               THEN Finish(q, 400, [error |-> "jobId required"])
               ELSE [q EXCEPT !.pc = "st_describe"]
          [] OTHER -> Finish(q, 400, [error |-> "Unknown action"])

\* the invocations of the other processes are over, or overlap is allowed
MayStart(p) ==
    /\ \A q \in DOMAIN proc : q < p => proc[q].pc # "idle"
    /\ config.overlap \/ \A q \in DOMAIN proc : proc[q].pc \in {"idle", "done"}

\* the Lambda is invoked with an event
Invoke(p) ==
    /\ proc[p].pc = "idle"
    /\ MayStart(p)
    /\ \E ev \in Events :
         /\ ev.type \in config.triggers
         /\ proc' = [proc EXCEPT ![p] = Dispatch(proc[p], ev)]
    /\ UNCHANGED << store, jobs, clock, config, faults >>

(***************************************************************************)
(* The environment: the Batch Operations service runs a job, time passes.  *)
(***************************************************************************)
\* the service reads the manifest if its ETag is the job's, and deletes its keys
ProviderRun(j) ==
    /\ jobs[j].status = "New"
    /\ LET job == jobs[j]
           usable == /\ Has(store, job.manifestKey)
                     /\ ETag(Get(store, job.manifestKey)) = job.etag
           lines == IF usable THEN Get(store, job.manifestKey) ELSE << >>
       IN  /\ jobs' = [jobs EXCEPT ![j] =
                         [job EXCEPT !.status = IF usable THEN "Complete" ELSE "Failed",
                                     !.tasks = Len(lines)]]
           /\ store' = Remove(store, {LineKey(lines[i]) : i \in DOMAIN lines})
    /\ UNCHANGED << clock, config, faults, proc >>

\* the users whose app is running
Uploaders == { << "a" >> }

\* the app of a user uploads one more photo
Upload(u) ==
    LET key == Key(Prefixes(u)[1], UploadName)
    IN  /\ ~Has(store, key)
        /\ store' = Put(store, key, "blob")
        /\ UNCHANGED << jobs, clock, config, faults, proc >>

Tick ==
    /\ clock < MaxClock
    /\ clock' = clock + 1
    /\ UNCHANGED << store, jobs, config, faults, proc >>

(***************************************************************************)
(* Initial states: a bucket with three accounts, their identity mappings   *)
(* and scheduled entries, no job, no invocation yet.                       *)
(***************************************************************************)
\* the objects of a user: counts[i] files under the i-th namespace
UserObjects(user_id, counts) ==
    LET full == {i \in DOMAIN counts : counts[i] > 0}
    IN  [p \in {Prefixes(user_id)[i] : i \in full} |->
           [n \in 1..counts[CHOOSE i \in full : Prefixes(user_id)[i] = p] |-> "blob"]]

\* identities/: the directory marker and one mapping per provider
IdentityStore ==
    (IdentitiesPrefix :> (0 :> << >>)) @@
    ((IdentitiesPrefix \o << "apple:x" >>) :> (0 :> << "a", "\n" >>)) @@
    ((IdentitiesPrefix \o << "google:y" >>) :> (0 :> << "a", "b" >>))

\* bodies of a scheduled entry
Due(t) == [json |-> TRUE, hasDeleteOn |-> TRUE, deleteOn |-> t]
Malformed == [json |-> FALSE, hasDeleteOn |-> FALSE, deleteOn |-> 0]
NoDeleteOn == [json |-> TRUE, hasDeleteOn |-> FALSE, deleteOn |-> 0]

Entry(date, user_id, body) == ScheduledKey(date, user_id).p :> (0 :> body)

\* the scheduled-deletions/ namespaces the model starts from
ScheduledStores ==
    { Entry("2026-11-02", << "a" >>, Due(1)) @@ Entry("2026-11-02", << "a", "b" >>, Due(3)),
      Entry("2026-11-02", << "a", "b" >>, Due(3)) @@ Entry("2026-11-02", << "b" >>, Due(2)),
      Entry("2026-11-02", << "a" >>, Malformed) @@ Entry("2026-11-02", << "a", "b" >>, Due(2))
         @@ Entry("2026-11-02", << "b" >>, NoDeleteOn),
      Entry("2026-11-01", << "a", "b" >>, Due(1)) @@ Entry("2026-11-02", << "a" >>, Due(2)) }

\* the small bucket: "a" has four objects, "ab" two, "b" none
SmallObjects ==
    UserObjects(<< "a" >>, << 3, 0, 0, 1 >>) @@ UserObjects(<< "a", "b" >>, << 1, 1, 0, 0 >>)

\* large accounts of "a" around the threshold and the batch limit, with the
\* configured threshold
LargeCases ==
    { << << 1000, 0, 0, 0 >>, DefaultThreshold >>, << << 1001, 0, 0, 0 >>, DefaultThreshold >>,
      << << 999, 1, 0, 0 >>, DefaultThreshold >>, << << 1000, 1, 0, 0 >>, DefaultThreshold >>,
      << << 1500, 0, 0, 0 >>, 3000 >>, << << 1200, 1100, 0, 3 >>, 3000 >> }

Config(env, threshold, pageSize, overlap) ==
    [environment |-> env, threshold |-> threshold, pageSize |-> pageSize, overlap |-> overlap,
     triggers |-> {"immediate", "scheduled", "<absent>", "purge", "status"}]

Configs ==
    {Config("development", t, ps, FALSE) : t \in {0, 2, DefaultThreshold}, ps \in {SmallPage, FullPage}}
    \cup {Config("production", DefaultThreshold, FullPage, FALSE)}

\* the bucket holds the objects, the mappings and one of the scheduled namespaces;
\* the invocations ps have not started
InitOf(ps, configs, objects, scheduled, budget) ==
    /\ config \in configs
    /\ \E obj \in objects, sched \in scheduled :
         store = obj @@ IdentityStore @@ sched
    /\ jobs = << >>
    /\ clock = 2
    /\ faults = budget
    /\ proc = [p \in ps |-> IdleProc]

\* one invocation on the small bucket
Init == InitOf({1}, Configs, {SmallObjects}, ScheduledStores, MaxFaults)

\* two invocations, one after the other
InitSeq ==
    InitOf({1, 2}, {Config("development", 2, SmallPage, FALSE)}, {SmallObjects}, ScheduledStores,
           MaxFaults)

\* one invocation on a large account
InitLarge ==
    \E c \in LargeCases :
        InitOf({1}, {Config("development", c[2], FullPage, FALSE)},
               {UserObjects(<< "a" >>, c[1]) @@ UserObjects(<< "a", "b" >>, << 1, 1, 0, 0 >>)},
               {Entry("2026-11-02", << "a" >>, Due(1)) @@ Entry("2026-11-02", << "a", "b" >>, Due(3))},
               MaxFaults)

Step(p) ==
    \/ Invoke(p)
    \/ ScanPage(p)
    \/ RimList(p)
    \/ RimGet(p)
    \/ RimDelete(p)
    \/ RsdList(p)
    \/ RsdDelete(p)
    \/ DirectBatch(p)
    \/ BjPut(p)
    \/ BjHead(p)
    \/ BjCreate(p)
    \/ BjMeta(p)
    \/ GetBatchJobStatus(p)
    \/ SweepList(p)
    \/ SweepEntry(p)

Next ==
    \/ \E p \in DOMAIN proc : Step(p)
    \/ \E j \in DOMAIN jobs : ProviderRun(j)
    \/ Tick

Spec == Init /\ [][Next]_vars

SpecSeq == InitSeq /\ [][Next]_vars

\* two immediate deletions that may overlap, no fault, while the apps may upload
InitConc ==
    InitOf({1, 2}, {[Config("development", 2, FullPage, TRUE) EXCEPT !.triggers = {"immediate"}]},
           {SmallObjects},
           {Entry("2026-11-02", << "a" >>, Due(1)) @@ Entry("2026-11-02", << "a", "b" >>, Due(3))},
           0)

StepConc(p) ==
    \/ Invoke(p)
    \/ ScanPage(p)
    \/ RimList(p)
    \/ RimGet(p)
    \/ RimDelete(p)
    \/ RsdList(p)
    \/ RsdDelete(p)
    \/ DirectBatch(p)
    \/ BjPut(p)
    \/ BjHead(p)
    \/ BjCreate(p)
    \/ BjMeta(p)

NextConc ==
    \/ \E p \in DOMAIN proc : StepConc(p)
    \/ \E j \in DOMAIN jobs : ProviderRun(j)
    \/ \E u \in Uploaders : Upload(u)
    \/ Tick

SpecConc == InitConc /\ [][NextConc]_vars

SpecLarge == InitLarge /\ [][Next]_vars

(***************************************************************************)
(* Reading the log: the activations of delete_user_account.                *)
(***************************************************************************)
Starts(tr) == {i \in DOMAIN tr : tr[i].op = "call"}

EndOf(tr, i) ==
    LET ends == {j \in (i + 1)..Len(tr) : tr[j].op \in {"return", "raise"}}
    IN  IF ends = {} THEN Len(tr) ELSE CHOOSE j \in ends : \A k \in ends : j <= k

\* the log of every activation, from its call to its end (or to now)
Activations ==
    UNION {{SubSeq(proc[p].trace, i, EndOf(proc[p].trace, i)) : i \in Starts(proc[p].trace)} :
             p \in DOMAIN proc}

UserOf(a) == a[1].user
Returned(a) == a[Len(a)].op = "return"
Raised(a) == a[Len(a)].op = "raise"
ResultOf(a) == a[Len(a)].result
Calls(a, op) == {i \in DOMAIN a : a[i].op = op}

\* the pages the scan of the four namespaces was served
ScanPages(a) ==
    {i \in Calls(a, "list") : a[i].ok /\ \E k \in 1..4 : a[i].key.p = Prefixes(UserOf(a))[k]}

\* every namespace was listed to its last page
ScanDone(a) ==
    \A k \in 1..4 : \E i \in ScanPages(a) : a[i].key.p = Prefixes(UserOf(a))[k] /\ ~a[i].more

\* the keys the scan was served, in order
ScanKeys(a) == Flatten([i \in DOMAIN a |-> IF i \in ScanPages(a) THEN a[i].keys ELSE << >>])

ListsOf(a, prefix) == {i \in Calls(a, "list") : a[i].key = Key(prefix, 0)}

\* remove_identity_mappings listed identities/ to its end and read every mapping
RanIdentityRemoval(a) ==
    /\ \E i \in ListsOf(a, IdentitiesPrefix) : a[i].ok /\ ~a[i].more
    /\ \A i \in ListsOf(a, IdentitiesPrefix) : \A j \in DOMAIN a[i].keys :
         a[i].keys[j] # Key(IdentitiesPrefix, 0)
            => \E g \in Calls(a, "get") : a[g].key = a[i].keys[j]

\* remove_scheduled_deletion listed scheduled-deletions/ to its end, or to the
\* entry it deleted
RanScheduledRemoval(a) ==
    \E i \in ListsOf(a, ScheduledPrefix) :
        /\ a[i].ok
        /\ \/ ~a[i].more
           \/ \E d \in Calls(a, "delete") :
                a[d].ok /\ StartsWith(a[d].key.p, ScheduledPrefix)

HasDirect(a) == Calls(a, "delete_objects") # {}
HasBulk(a) == Calls(a, "create_job") # {} \/ Calls(a, "put") # {} \/ Calls(a, "head") # {}

(***************************************************************************)
(* C1.                                                                     *)
(***************************************************************************)
ZeroAtScan(a) == ScanDone(a) /\ ScanKeys(a) = << >>

\* C1: an activation of delete_user_account whose scan found the four
\* namespaces of the user empty issues no delete_objects request and no bulk
\* job; when it returns, it returns the Empty outcome (status 'completed',
\* objectCount 0, method 'none') for that user after both removals have run;
\* it ends otherwise only when a listing of the cleanup fails.
C1_EmptyOutcome ==
    \A a \in Activations :
        ZeroAtScan(a) =>
            /\ ~HasDirect(a) /\ ~HasBulk(a)
            /\ Returned(a) =>
                 /\ ResultOf(a).status = "completed"
                 /\ ResultOf(a).objectCount = 0
                 /\ ResultOf(a).method = "none"
                 /\ ResultOf(a).userId = UserOf(a)
                 /\ RanIdentityRemoval(a)
                 /\ RanScheduledRemoval(a)
            /\ Raised(a) =>
                 \E i \in ListsOf(a, IdentitiesPrefix) \cup ListsOf(a, ScheduledPrefix) : ~a[i].ok

\* an account without objects got the Empty outcome, and its scheduled entry was removed
C1_Witness ==
    \E a \in Activations :
        /\ ZeroAtScan(a) /\ Returned(a)
        /\ ResultOf(a).method = "none"
        /\ \E d \in Calls(a, "delete") : a[d].ok /\ StartsWith(a[d].key.p, ScheduledPrefix)

(***************************************************************************)
(* C2.                                                                     *)
(***************************************************************************)
\* C2: an activation whose scan counted count > 0 objects sends delete_objects
\* requests only when count <= DELETION_THRESHOLD and works on a bulk job only
\* when count > DELETION_THRESHOLD; when it returns, it returns method 'direct'
\* in the first case and method 'batch', status 'batch_job_created', after
\* create_job in the second.
C2_ThresholdSelects ==
    \A a \in Activations :
        (ScanDone(a) /\ ScanKeys(a) # << >>) =>
            LET count == Len(ScanKeys(a))
            IN  /\ HasDirect(a) => count <= config.threshold
                /\ HasBulk(a) => count > config.threshold
                /\ (Returned(a) /\ count <= config.threshold) =>
                     /\ ResultOf(a).method = "direct"
                     /\ ResultOf(a).objectCount = count
                     /\ HasDirect(a)
                /\ (Returned(a) /\ count > config.threshold) =>
                     /\ ResultOf(a).method = "batch"
                     /\ ResultOf(a).status = "batch_job_created"
                     /\ ResultOf(a).objectCount = count
                     /\ \E i \in Calls(a, "create_job") : a[i].ok

\* one object more than the default threshold: the bulk job
C2_Witness ==
    \E a \in Activations :
        /\ config.threshold = DefaultThreshold
        /\ Len(ScanKeys(a)) = DefaultThreshold + 1
        /\ Returned(a) /\ ResultOf(a).method = "batch"

\* as many objects as the default threshold: the direct path
C2_AtThreshold ==
    \E a \in Activations :
        /\ config.threshold = DefaultThreshold
        /\ Len(ScanKeys(a)) = DefaultThreshold
        /\ Returned(a) /\ ResultOf(a).method = "direct"

(***************************************************************************)
(* C3.                                                                     *)
(***************************************************************************)
Range(s) == {s[i] : i \in DOMAIN s}
NoRepeat(s) == Cardinality(Range(s)) = Len(s)

\* the keys of the delete_objects requests, in order
RequestedKeys(a) ==
    Flatten([i \in DOMAIN a |-> IF a[i].op = "delete_objects" THEN a[i].keys ELSE << >>])

\* C3: on the direct path every delete_objects request carries between 1 and
\* 1000 keys, no key is sent twice, only keys of the inventory are sent, and
\* when perform_direct_deletion has returned the requests together carry every
\* key of the inventory.
C3_BatchesCoverOnce ==
    \A a \in Activations :
        HasDirect(a) =>
            /\ \A i \in Calls(a, "delete_objects") :
                 Len(a[i].keys) >= 1 /\ Len(a[i].keys) <= 1000
            /\ NoRepeat(RequestedKeys(a))
            /\ Range(RequestedKeys(a)) \subseteq Range(ScanKeys(a))
            /\ Returned(a) => Range(RequestedKeys(a)) = Range(ScanKeys(a))

\* 2303 keys over three namespaces went out in five requests, two of them full
C3_Witness ==
    \E a \in Activations :
        /\ Returned(a) /\ ResultOf(a).method = "direct"
        /\ Cardinality(Calls(a, "delete_objects")) = 5
        /\ Cardinality({i \in Calls(a, "delete_objects") : Len(a[i].keys) = 1000}) = 2
        /\ Cardinality({a[i].key : i \in Calls(a, "delete_objects")}) = 3

(***************************************************************************)
(* C4.                                                                     *)
(***************************************************************************)
\* the lines are the inventory's keys, each once, each after the bucket and a comma
LinesOfInventory(lines, keys) ==
    /\ Len(lines) = Len(keys)
    /\ NoRepeat(lines)
    /\ \A i \in DOMAIN lines :
         /\ Len(lines[i].p) > 2
         /\ lines[i].p[1] = BUCKET_NAME
         /\ lines[i].p[2] = ","
    /\ {LineKey(lines[i]) : i \in DOMAIN lines} = Range(keys)

\* the activation an invocation is in, or was in last
LastActivation(p) ==
    LET tr == proc[p].trace
        i == CHOOSE j \in Starts(tr) : \A k \in Starts(tr) : k <= j
    IN  SubSeq(tr, i, EndOf(tr, i))

\* C4: the manifest create_batch_operations_job builds holds one line
\* 'bucket,key' per key of the inventory and nothing else; once the bulk path
\* has returned, the manifest in the bucket is that one, and the objectCount of
\* the metadata record is the number of its lines and the count of the scan.
C4_ManifestAndMetadata ==
    /\ \A p \in DOMAIN proc :
         proc[p].pc \in {"bj_head", "bj_create", "bj_meta"} =>
            LinesOfInventory(proc[p].manifest, ScanKeys(LastActivation(p)))
    /\ \A a \in Activations :
         (Returned(a) /\ ResultOf(a).method = "batch") =>
            /\ Has(store, MetadataKey(ResultOf(a).jobId))
            /\ LET meta == Get(store, MetadataKey(ResultOf(a).jobId))
               IN  /\ Has(store, meta.manifestKey)
                   /\ LinesOfInventory(Get(store, meta.manifestKey), ScanKeys(a))
                   /\ meta.objectCount = Len(Get(store, meta.manifestKey))
                   /\ meta.objectCount = Len(ScanKeys(a))
                   /\ meta.objectCount = ResultOf(a).objectCount

\* a bulk job for the four objects of two namespaces, its metadata stored
C4_Witness ==
    \E a \in Activations :
        /\ Returned(a) /\ ResultOf(a).method = "batch"
        /\ Len(ScanKeys(a)) = 4
        /\ Cardinality({a[i].key : i \in ScanPages(a)} \cap
                       {Key(Prefixes(UserOf(a))[k], 0) : k \in {1, 4}}) = 2
        /\ Has(store, MetadataKey(ResultOf(a).jobId))
        /\ Get(store, MetadataKey(ResultOf(a).jobId)).objectCount = 4

(***************************************************************************)
(* C5.                                                                     *)
(***************************************************************************)
\* C5: the ETag create_batch_operations_job hands to create_job is the ETag of
\* the manifest this invocation built and uploaded, also when invocations
\* overlap.
C5_EtagOfOwnManifest ==
    \A p \in DOMAIN proc :
        proc[p].pc \in {"bj_create", "bj_meta"} =>
            proc[p].etag = ETag(proc[p].manifest)

(***************************************************************************)
(* C6.                                                                     *)
(***************************************************************************)
NoFailure(tr) == \A i \in DOMAIN tr : tr[i].ok

\* an invocation that deleted the account of a user at once and has answered
ImmediateDone(p, user_id) ==
    /\ proc[p].pc = "done"
    /\ proc[p].event.type = "immediate"
    /\ proc[p].event.userId = user_id
    /\ proc[p].resp.statusCode = 200

\* the records remove_identity_mappings and remove_scheduled_deletion deleted
CleanupDeletes(tr) == {tr[i].key : i \in {j \in DOMAIN tr : tr[j].op = "delete" /\ tr[j].ok}}

\* C6: when the cleanup of a user has run to its end in one invocation and
\* runs again in the next one, no call failing and nobody else writing, the
\* second run raises nothing and deletes no record.
C6_CleanupIdempotent ==
    \A u \in Users :
        (/\ ImmediateDone(1, u) /\ NoFailure(proc[1].trace)
         /\ proc[2].event.type = "immediate" /\ proc[2].event.userId = u
         /\ NoFailure(proc[2].trace))
        => /\ CleanupDeletes(proc[2].trace) = {}
           /\ proc[2].pc = "done" => proc[2].resp.statusCode = 200

(***************************************************************************)
(* C7.                                                                     *)
(***************************************************************************)
\* an invocation that swept the scheduled deletions and has answered; its
\* listing succeeded and found entries
SweepDone(p) ==
    /\ proc[p].pc = "done"
    /\ ActionOf(proc[p].event) = "scheduled"
    /\ proc[p].trace # << >>
    /\ proc[p].trace[1].ok
    /\ proc[p].trace[1].keys # << >>

\* what the date bucket held when the sweep listed it
Bucket(p) == proc[p].trace[1].result

WellFormed(body) == body.json /\ body.hasDeleteOn

\* C7: when a sweep without a failing call has returned, every entry the
\* date bucket held with deleteOn <= now went through delete_user_account,
\* and every entry with deleteOn > now did not, has no element in 'results'
\* and is still in the bucket.
C7_SweepDueOnly ==
    \A p \in DOMAIN proc :
        (SweepDone(p) /\ NoFailure(proc[p].trace)) =>
            \A i \in DOMAIN Bucket(p).entries :
                LET key == Bucket(p).entries[i]
                    body == Bucket(p).bodies[i]
                    called == \E j \in DOMAIN proc[p].trace :
                                 /\ proc[p].trace[j].op = "call"
                                 /\ proc[p].trace[j].user = EntryUser(key)
                    counted == \E j \in DOMAIN proc[p].resp.body.results :
                                  proc[p].resp.body.results[j].userId = EntryUser(key)
                IN  /\ (WellFormed(body) /\ body.deleteOn <= proc[p].now) => called
                    /\ (WellFormed(body) /\ body.deleteOn > proc[p].now) =>
                          ~called /\ ~counted /\ Has(store, key)

(***************************************************************************)
(* C8.                                                                     *)
(***************************************************************************)
\* the keys the store confirmed deleted: those of the requests that were
\* answered, less the keys the answers list under Errors
ConfirmedDeleted(a) ==
    Len(Flatten([i \in DOMAIN a |->
                   IF a[i].op = "delete_objects" /\ a[i].ok THEN a[i].keys ELSE << >>]))
    - Len(Flatten([i \in DOMAIN a |-> IF a[i].op = "errors" THEN a[i].keys ELSE << >>]))

DirectReturned(a) == Returned(a) /\ ResultOf(a).method = "direct"

\* a request of the direct path was refused, or answered with Errors
BatchFailed(a) ==
    \/ \E i \in Calls(a, "delete_objects") : ~a[i].ok
    \/ Calls(a, "errors") # {}

SweepGets(p) ==
    {i \in DOMAIN proc[p].trace :
        proc[p].trace[i].op = "get" /\ proc[p].trace[i].user = << >>}

ErrorResult(p, user_id) ==
    \E j \in DOMAIN proc[p].resp.body.results :
        /\ proc[p].resp.body.results[j].userId = user_id
        /\ proc[p].resp.body.results[j].status = "error"
        /\ "error" \in DOMAIN proc[p].resp.body.results[j]

\* C9: a sweep that listed entries returns normally with 'processed' the
\* length of 'results'; every entry of the listing was read; an entry that
\* could not be read, was no JSON, had no deleteOn, or whose deletion raised
\* has an error outcome under the user id of its key.
C9_SweepEntryFailure ==
    \A p \in DOMAIN proc :
        SweepDone(p) =>
            LET tr == proc[p].trace
                body == proc[p].resp.body
            IN  /\ proc[p].resp.statusCode = 200
                /\ "results" \in DOMAIN body
                /\ body.processed = Len(body.results)
                /\ \A i \in DOMAIN tr[1].keys :
                     \E g \in SweepGets(p) : tr[g].key = tr[1].keys[i]
                /\ \A g \in SweepGets(p) :
                     LET at == CHOOSE i \in DOMAIN Bucket(p).entries :
                                  Bucket(p).entries[i] = tr[g].key
                     IN  (~tr[g].ok \/ ~WellFormed(Bucket(p).bodies[at]))
                            => ErrorResult(p, EntryUser(tr[g].key))
                /\ \A i \in DOMAIN tr :
                     tr[i].op = "raise" => ErrorResult(p, tr[i].user)

\* the first entry was no JSON, the second one led to a bulk job, the third
\* one had no deleteOn
C9_Witness ==
    \E p \in DOMAIN proc :
        /\ SweepDone(p)
        /\ Len(proc[p].resp.body.results) = 3
        /\ proc[p].resp.body.results[1].status = "error"
        /\ proc[p].resp.body.results[2].status = "batch_job_created"
        /\ proc[p].resp.body.results[3].status = "error"

(***************************************************************************)
(* C10.                                                                    *)
(***************************************************************************)
\* C10: the step of get_batch_job_status leaves the bucket and the jobs as
\* they are and answers 200: 'NotFound' when the provider knows no such job,
\* 'Error' with the message when describe_job failed otherwise, and else the
\* job's status.
C10_StatusNeverRaises ==
    [][\A p \in DOMAIN proc :
         (proc[p].pc = "st_describe" /\ proc'[p].pc = "done") =>
            LET job_id == proc[p].event.jobId
                known == {j \in DOMAIN jobs : jobs[j].id = job_id}
                failed == faults' < faults
                body == proc'[p].resp.body
            IN  /\ store' = store
                /\ jobs' = jobs
                /\ proc'[p].resp.statusCode = 200
                /\ body.jobId = job_id
                /\ failed => body.status = "Error" /\ body.error = "describe_job failed"
                /\ (~failed /\ known = {}) => body.status = "NotFound"
                /\ (~failed /\ known # {}) =>
                     \E j \in known : body.status = jobs[j].status]_vars

\* a query for a job the provider does not know, while it knows another one
C10_Witness ==
    \E p \in DOMAIN proc :
        /\ proc[p].pc = "done"
        /\ proc[p].event.type = "status"
        /\ proc[p].resp.statusCode = 200
        /\ proc[p].resp.body.status = "NotFound"
        /\ jobs # << >>

\* a query that failed in the provider
C10_ErrorAnswer ==
    \E p \in DOMAIN proc :
        /\ proc[p].pc = "done"
        /\ proc[p].event.type = "status"
        /\ proc[p].event.jobId # ""
        /\ proc[p].resp.statusCode = 200
        /\ proc[p].resp.body.status = "Error"

\* a query for a job the provider has run
C10_JobAnswer ==
    \E p \in DOMAIN proc :
        /\ proc[p].pc = "done"
        /\ proc[p].event.type = "status"
        /\ proc[p].event.jobId # ""
        /\ proc[p].resp.statusCode = 200
        /\ proc[p].resp.body.status = "Complete"

(***************************************************************************)
(* C11.                                                                    *)
(***************************************************************************)
\* the trigger fails the validation of the handler
Invalid(ev) ==
    \/ ev.type = "immediate" /\ ev.userId = << >>
    \/ ev.type = "status" /\ ev.jobId = ""
    \/ ActionOf(ev) \notin {"immediate", "scheduled", "status"}

Triggered(p) == proc[p].pc # "idle"

\* C11 as stated: every trigger that fails the validation is answered 400
\* and no call was made.
C11_Invalid400 ==
    \A p \in DOMAIN proc :
        (Triggered(p) /\ Invalid(proc[p].event)) =>
            /\ proc[p].pc = "done"
            /\ proc[p].resp.statusCode = 400
            /\ proc[p].trace = << >>

\* C11, amended: a trigger that fails the validation is answered at once,
\* no call made, with 400; an 'immediate' trigger outside development is
\* answered 403 before its userId is looked at.
C11_InvalidRejected ==
    \A p \in DOMAIN proc :
        (Triggered(p) /\ Invalid(proc[p].event)) =>
            /\ proc[p].pc = "done"
            /\ proc[p].trace = << >>
            /\ "error" \in DOMAIN proc[p].resp.body
            /\ proc[p].resp.statusCode =
                 IF proc[p].event.type = "immediate" /\ config.environment # "development"
                 THEN 403 ELSE 400

\* a status trigger without jobId was answered 400
C11_Witness ==
    \E p \in DOMAIN proc :
        /\ proc[p].event.type = "status" /\ proc[p].event.jobId = ""
        /\ proc[p].pc = "done"
        /\ proc[p].resp.statusCode = 400
        /\ proc[p].trace = << >>

\* an immediate trigger without userId, answered 403 in production
C11_Forbidden ==
    \E p \in DOMAIN proc :
        /\ proc[p].event.type = "immediate" /\ proc[p].event.userId = << >>
        /\ proc[p].pc = "done"
        /\ proc[p].resp.statusCode = 403

(***************************************************************************)
(* C12.                                                                    *)
(***************************************************************************)
\* a listing of the scan of the four namespaces failed
ScanFailed(a) ==
    \E i \in Calls(a, "list") :
        ~a[i].ok /\ \E k \in 1..4 : a[i].key.p = Prefixes(UserOf(a))[k]

\* C12: when a listing of the scan has failed and delete_user_account is
\* over, the caller has the count and the keys accumulated before the failure.
C12_ScanKeepsCounts ==
    \A a \in Activations :
        (ScanFailed(a) /\ (Returned(a) \/ Raised(a))) =>
            /\ Returned(a)
            /\ "objectCount" \in DOMAIN ResultOf(a)
            /\ ResultOf(a).objectCount = Len(ScanKeys(a))

\* the scan failed after it had listed keys, and the call ended with the
\* exception, nothing cleaned and nothing deleted
C12_ScanRaised ==
    \E a \in Activations :
        /\ ScanFailed(a) /\ Raised(a)
        /\ ScanKeys(a) # << >>
        /\ Calls(a, "delete") = {} /\ ~HasDirect(a) /\ ~HasBulk(a)
        /\ ListsOf(a, IdentitiesPrefix) = {}

(***************************************************************************)
(* C13.                                                                    *)
(***************************************************************************)
\* the calls of the scan, of the two removals, and of the deletion proper
ScanCalls(a) ==
    {i \in Calls(a, "list") : \E k \in 1..4 : a[i].key.p = Prefixes(UserOf(a))[k]}
CleanupCalls(a) ==
    ListsOf(a, IdentitiesPrefix) \cup ListsOf(a, ScheduledPrefix)
    \cup Calls(a, "get") \cup Calls(a, "delete")
DeletionCalls(a) ==
    Calls(a, "delete_objects") \cup Calls(a, "put") \cup Calls(a, "head")
    \cup Calls(a, "create_job")

AllBefore(S, T) == \A i \in S, j \in T : i < j

\* the identity mappings of a user that the bucket holds
MappingsOf(user_id) ==
    {k \in Range(Listing(store, IdentitiesPrefix)) :
        k # Key(IdentitiesPrefix, 0) /\ Strip(Get(store, k)) = user_id}

SameUser(u) ==
    \A p \in DOMAIN proc : proc[p].event.type = "immediate" /\ proc[p].event.userId = u

BothDone == \A p \in DOMAIN proc : proc[p].pc = "done"

\* C14: when two immediate deletions of one user overlap and no call is
\* refused by the store, neither raises, each answers 200 with a non-error
\* outcome; when both are over the bucket holds no identity mapping of the
\* user, and when both took the direct path it holds none of the keys either
\* of them inventoried.
C14_OverlapTolerated ==
    \A u \in Users :
        SameUser(u) =>
            /\ \A p \in DOMAIN proc :
                 /\ \A i \in DOMAIN proc[p].trace : proc[p].trace[i].op # "raise"
                 /\ proc[p].pc = "done" =>
                      /\ proc[p].resp.statusCode = 200
                      /\ proc[p].resp.body.status \in {"completed", "batch_job_created"}
            /\ BothDone => MappingsOf(u) = {}
            /\ (BothDone /\ \A p \in DOMAIN proc : proc[p].resp.body.method = "direct") =>
                 \A a \in Activations : \A i \in DOMAIN ScanKeys(a) : ~Has(store, ScanKeys(a)[i])

\* two direct deletions of "ab" are over; one of them read a mapping the
\* other had deleted, and both sent delete_objects for the same keys
C14_Witness ==
    /\ SameUser(<< "a", "b" >>)
    /\ BothDone
    /\ \A p \in DOMAIN proc : proc[p].resp.body.method = "direct"
    /\ \E p \in DOMAIN proc : \E i \in DOMAIN proc[p].trace :
         proc[p].trace[i].op = "get" /\ ~proc[p].trace[i].ok
    /\ \A p \in DOMAIN proc : \E i \in DOMAIN proc[p].trace :
         proc[p].trace[i].op = "delete_objects" /\ Len(proc[p].trace[i].keys) = 1

(***************************************************************************)
(* C15.                                                                    *)
(***************************************************************************)
\* the page of identities/ served at i has been gone through
PageOver(a, i) == \E j \in (i + 1)..Len(a) : a[j].op \notin {"get", "delete"}

IsMapping(k) == k.p # IdentitiesPrefix /\ StartsWith(k.p, IdentitiesPrefix)
IsScheduled(k) == StartsWith(k.p, ScheduledPrefix)

\* the entries of page i that come after key k and contain the user id
MatchingAfter(a, i, k) ==
    LET ks == a[i].keys
        at == CHOOSE n \in DOMAIN ks : ks[n] = k
    IN  SelectSeq(SubSeq(ks, at + 1, Len(ks)), LAMBDA e : Contains(KeyText(e), UserOf(a)))

\* the last page of scheduled-deletions/ served before call j
PageBefore(a, j) ==
    CHOOSE i \in ListsOf(a, ScheduledPrefix) :
        i < j /\ \A m \in ListsOf(a, ScheduledPrefix) : m < j => m <= i

\* C15: a failed read or delete of one record does not end the cleanup. Every
\* mapping of a page of identities/ that was gone through has been read,
\* whatever happened to the ones before it; a mapping read as the user's is
\* then deleted, and is gone when the delete succeeded; after a failed delete
\* of a matching scheduled entry the next call is the delete of the next
\* matching entry of the page, or the next page, and never a raise; and
\* delete_user_account raises only after a failed call that is neither the
\* read nor the delete of one record (so not when the records are absent).
C15_CleanupTolerant ==
    \A a \in Activations :
        /\ \A i \in ListsOf(a, IdentitiesPrefix) :
             (a[i].ok /\ PageOver(a, i)) =>
                 \A n \in DOMAIN a[i].keys :
                     IsMapping(a[i].keys[n]) =>
                         \E j \in Calls(a, "get") : j > i /\ a[j].key = a[i].keys[n]
        /\ \A j \in Calls(a, "get") :
             (a[j].ok /\ Strip(Get(IdentityStore, a[j].key)) = UserOf(a) /\ j < Len(a)) =>
                 /\ a[j + 1].op = "delete"
                 /\ a[j + 1].key = a[j].key
                 /\ a[j + 1].ok => ~Has(store, a[j].key)
        /\ \A j \in Calls(a, "delete") :
             (IsScheduled(a[j].key) /\ ~a[j].ok /\ j < Len(a)) =>
                 LET i == PageBefore(a, j)
                     rest == MatchingAfter(a, i, a[j].key)
                 IN  IF rest # << >>
                     THEN a[j + 1].op = "delete" /\ a[j + 1].key = rest[1]
                     ELSE IF a[i].more
                     THEN a[j + 1].op = "list" /\ a[j + 1].key = Key(ScheduledPrefix, 0)
                     ELSE a[j + 1].op \notin {"raise", "delete", "list", "get"}
        /\ Raised(a) =>
             \E i \in 1..(Len(a) - 1) : ~a[i].ok /\ a[i].op \notin {"get", "delete"}

\* the read of the first mapping failed, and the user's mapping, which comes
\* after it, was read and deleted
C15_Witness ==
    \E a \in Activations :
        /\ Returned(a)
        /\ \E i, j \in DOMAIN a :
             /\ i < j
             /\ a[i].op = "get" /\ ~a[i].ok
             /\ a[j].op = "delete" /\ a[j].ok /\ IsMapping(a[j].key)
             /\ ~Has(store, a[j].key)

\* the delete of a matching scheduled entry failed and the next matching
\* entry was deleted
C15_ScheduledRetry ==
    \E a \in Activations :
        /\ Returned(a)
        /\ \E j \in Calls(a, "delete") :
             /\ IsScheduled(a[j].key) /\ ~a[j].ok
             /\ j + 1 \in Calls(a, "delete") /\ a[j + 1].ok

\* the user has neither a mapping nor a scheduled entry, and the cleanup of
\* the account without objects returns
C15_Absent ==
    \E a \in Activations :
        /\ Returned(a)
        /\ ResultOf(a).method = "none"
        /\ Calls(a, "delete") = {}
        /\ ListsOf(a, ScheduledPrefix) # {}

(***************************************************************************)
(* C16.                                                                    *)
(***************************************************************************)
\* the entries a sweep took through delete_user_account to its return: the
\* key of the get_object that precedes the call
Processed(p) ==
    LET tr == proc[p].trace
    IN  {tr[i - 1].key : i \in {j \in Starts(tr) : tr[EndOf(tr, j)].op = "return"}}

\* C16: when a sweep without a failing call has returned, every entry it
\* took through delete_user_account is absent from the bucket, whatever else
\* the scheduled-deletions namespace holds and whether or not the bulk job
\* of the user has run.
C16_EntryConsumed ==
    \A p \in DOMAIN proc :
        (SweepDone(p) /\ NoFailure(proc[p].trace)) =>
            \A k \in Processed(p) : ~Has(store, k)

\* a sweep without a failing call has processed the entry of "b", which is
\* still in the bucket, and deleted the entry of "ab" in its place
C16_WrongEntry ==
    \E p \in DOMAIN proc :
        /\ SweepDone(p) /\ NoFailure(proc[p].trace)
        /\ ScheduledKey("2026-11-02", << "b" >>) \in Processed(p)
        /\ Has(store, ScheduledKey("2026-11-02", << "b" >>))
        /\ ScheduledKey("2026-11-02", << "a", "b" >>) \in CleanupDeletes(proc[p].trace)

(***************************************************************************)
(* C17.                                                                    *)
(***************************************************************************)
IsManifest(k) == StartsWith(k.p, << "batch-jobs", "/", "manifests", "/" >>)
IsMetadata(k) == StartsWith(k.p, << "batch-jobs", "/", "metadata", "/" >>)

ManifestPuts(a) == {i \in Calls(a, "put") : IsManifest(a[i].key)}
MetadataPuts(a) == {i \in Calls(a, "put") : IsMetadata(a[i].key)}

\* C17: a metadata record is in the bucket only for a job that was submitted,
\* and a job was submitted only with its manifest in the bucket; in every
\* activation the manifest upload comes before create_job and create_job
\* before the metadata write, each done only after the one before succeeded;
\* when create_job fails the activation raises at once, the manifest stays,
\* the activation has submitted no job and written no metadata record.
C17_BuilderOrder ==
    /\ \A n \in DOMAIN JobIds :
         Has(store, MetadataKey(JobIds[n])) => \E j \in DOMAIN jobs : jobs[j].id = JobIds[n]
    /\ \A j \in DOMAIN jobs : Has(store, jobs[j].manifestKey)
    /\ \A a \in Activations :
         /\ AllBefore(ManifestPuts(a), Calls(a, "create_job"))
         /\ AllBefore(Calls(a, "create_job"), MetadataPuts(a))
         /\ Calls(a, "create_job") # {} => \E i \in ManifestPuts(a) : a[i].ok
         /\ MetadataPuts(a) # {} => \E i \in Calls(a, "create_job") : a[i].ok
         /\ \A i \in Calls(a, "create_job") :
              (~a[i].ok /\ i < Len(a)) =>
                  /\ a[i + 1].op = "raise"
                  /\ Has(store, a[i].key)
                  /\ MetadataPuts(a) = {}
                  /\ \A j \in Calls(a, "create_job") : ~a[j].ok

\* create_job was refused after the upload: the manifest is an orphan, there
\* is no job and no metadata record, and the handler answered 500
C17_Witness ==
    \E p \in DOMAIN proc :
        /\ proc[p].pc = "done"
        /\ proc[p].event.type = "immediate"
        /\ proc[p].resp.statusCode = 500
        /\ \E i \in DOMAIN proc[p].trace :
             /\ proc[p].trace[i].op = "create_job" /\ ~proc[p].trace[i].ok
             /\ Has(store, proc[p].trace[i].key)
        /\ jobs = << >>
        /\ \A n \in DOMAIN JobIds : ~Has(store, MetadataKey(JobIds[n]))

\* the three side effects done: manifest, job and metadata record
C17_AllThree ==
    \E a \in Activations :
        /\ Returned(a) /\ ResultOf(a).method = "batch"
        /\ Has(store, MetadataKey(ResultOf(a).jobId))
        /\ \E j \in DOMAIN jobs : jobs[j].id = ResultOf(a).jobId /\ Has(store, jobs[j].manifestKey)

(***************************************************************************)
(* C18.                                                                    *)
(***************************************************************************)
\* the scheduled entries an activation deleted
ScheduledDeletes(a) == {i \in Calls(a, "delete") : a[i].ok /\ IsScheduled(a[i].key)}

\* C18: an activation of delete_user_account(u) deletes at most one record
\* of scheduled-deletions/, and that record is the entry of u, under whatever
\* date bucket: the entry of every other user is left alone.
C18_OwnEntryOnly ==
    \A a \in Activations :
        /\ Cardinality(ScheduledDeletes(a)) <= 1
        /\ \A i \in ScheduledDeletes(a) : EntryUser(a[i].key) = UserOf(a)

\* the deletion of "b" removed the scheduled entry of "ab"
C18_OtherEntryDeleted ==
    \E a \in Activations :
        /\ Returned(a)
        /\ UserOf(a) = << "b" >>
        /\ \E i \in ScheduledDeletes(a) : EntryUser(a[i].key) = << "a", "b" >>

(***************************************************************************)
(* C19.                                                                    *)
(***************************************************************************)
\* the activation deleted the scheduled entry of its own user
OwnEntryDeleted(a) == \E i \in ScheduledDeletes(a) : EntryUser(a[i].key) = UserOf(a)

\* the deletion of the data was launched: a delete request was sent for
\* every key of the inventory, or a bulk job was submitted
Launched(a) ==
    \/ Range(ScanKeys(a)) \subseteq Range(RequestedKeys(a))
    \/ \E i \in Calls(a, "create_job") : a[i].ok

\* C19: an activation that has ended, by a return or by an exception, with a
\* non-empty inventory and the scheduled entry of its user deleted, has
\* launched the deletion of the user's data.
C19_RemovedOnlyIfLaunched ==
    \A a \in Activations :
        ((Returned(a) \/ Raised(a)) /\ ScanKeys(a) # << >> /\ OwnEntryDeleted(a)) =>
            Launched(a)

\* the manifest upload failed after the cleanup: the entry and the mapping
\* of "a" are gone, the four objects are all there, and no job exists
C19_EntryLostNoDeletion ==
    \E a \in Activations :
        /\ Raised(a)
        /\ UserOf(a) = << "a" >>
        /\ OwnEntryDeleted(a)
        /\ MappingsOf(<< "a" >>) = {}
        /\ Len(ScanKeys(a)) = 4
        /\ \A i \in DOMAIN ScanKeys(a) : Has(store, ScanKeys(a)[i])
        /\ jobs = << >>

(***************************************************************************)
(* C20.                                                                    *)
(***************************************************************************)
\* the key lies under photos/u/, thumbnails/u/, catalogs/u/ or users/u/
OwnKey(k, u) ==
    \E ns \in {"photos", "thumbnails", "catalogs", "users"} :
        StartsWith(k.p, << ns, "/" >> \o u \o << "/" >>)

\* C20: every key delete_user_account(u) puts in a delete_objects request or
\* in a manifest lies under one of the four namespaces of u, also when u is
\* the prefix of another user id; the manifest a job runs on names keys of
\* the job's user only; and an identity mapping is deleted only by an
\* activation for the user its content names, so a mapping missing from the
\* bucket was deleted by such an activation.
C20_OtherUsersUntouched ==
    /\ \A a \in Activations :
         /\ \A i \in DOMAIN RequestedKeys(a) : OwnKey(RequestedKeys(a)[i], UserOf(a))
         /\ \A i \in Calls(a, "delete") :
              IsMapping(a[i].key) => Strip(Get(IdentityStore, a[i].key)) = UserOf(a)
    /\ \A p \in DOMAIN proc :
         proc[p].pc \in {"bj_head", "bj_create", "bj_meta"} =>
            \A i \in DOMAIN proc[p].manifest :
                OwnKey(LineKey(proc[p].manifest[i]), proc[p].user)
    /\ \A j \in DOMAIN jobs :
         Has(store, jobs[j].manifestKey) =>
            \A i \in DOMAIN Get(store, jobs[j].manifestKey) :
                OwnKey(LineKey(Get(store, jobs[j].manifestKey)[i]), jobs[j].user)
    /\ \A k \in Range(Listing(IdentityStore, IdentitiesPrefix)) :
         ~Has(store, k) =>
            \E a \in Activations :
                /\ UserOf(a) = Strip(Get(IdentityStore, k))
                /\ \E i \in Calls(a, "delete") : a[i].key = k /\ a[i].ok

\* the direct deletion of "a" has returned: its four objects and its mapping
\* are gone, the objects and the mapping of "ab" are all there
C20_Witness ==
    \E a \in Activations :
        /\ Returned(a) /\ ResultOf(a).method = "direct"
        /\ UserOf(a) = << "a" >>
        /\ Len(RequestedKeys(a)) = 4
        /\ \A i \in DOMAIN ScanKeys(a) : ~Has(store, ScanKeys(a)[i])
        /\ MappingsOf(<< "a" >>) = {}
        /\ Has(store, Key(<< "photos", "/", "a", "b", "/" >>, 1))
        /\ Has(store, Key(<< "thumbnails", "/", "a", "b", "/" >>, 1))
        /\ Cardinality(MappingsOf(<< "a", "b" >>)) = 1

\* the bulk job of "a" has run on its manifest and the objects of "ab" are there
C20_BulkWitness ==
    \E j \in DOMAIN jobs :
        /\ jobs[j].status = "Complete" /\ jobs[j].tasks = 4
        /\ jobs[j].user = << "a" >>
        /\ Has(store, Key(<< "photos", "/", "a", "b", "/" >>, 1))
        /\ ~Has(store, Key(<< "photos", "/", "a", "/" >>, 1))

====
